---- MODULE Spec2Model ----
(***************************************************************************)
(* A model of the gollum Proxy consumer (consumer/proxy.go): its           *)
(* Configure function, its accept loop and its Consume life cycle, with    *)
(* the fuse, the listener, the peers and the connection handlers it works  *)
(* with; of the stream reader that frames the bytes of one connection; and *)
(* of two formatters, SplitToJSON.Format (format/splittojson.go) and       *)
(* Base64Decode.Configure (format/base64decode.go).                        *)
(*                                                                         *)
(* Strings the code inspects character by character (the address, the      *)
(* partitioner name, the delimiter, keys, messages, dictionaries) are      *)
(* sequences of one-character strings, so that ParseAddress, ToLower,      *)
(* Unescape, Split and EscapeJSON are computed.                            *)
(***************************************************************************)
EXTENDS Integers, Sequences, FiniteSets, TLC

VARIABLES
    cfgPc,        \* "init" before Configure, "configured" after it
    conf,         \* the plugin configuration handed to Configure
    cons,         \* the Proxy's configured fields: protocol, address, flags, delimiter, offset
    cfgResult,    \* what Configure returned: nil or an error holding the collected messages
    active,       \* the consumer's active flag (IsActive)
    shutdownReq,  \* a stop command is waiting on the control channel
    burned,       \* the fuse's state
    fuseWaiters,  \* the tasks blocked in the fuse's wait
    listen,       \* the listener: "none", "open", "failed" (accept errors), "closed"
    closeCount,   \* how many times the listener's Close was called
    consumePc,    \* where Consume is
    acceptorPc,   \* where the accept task is
    workers,      \* the counter of the shared worker group
    pending,      \* peers connected to the listener and not yet accepted
    accepted,     \* connections the listener's Accept has returned
    conn,         \* per connection: handler position, socket, buffered bytes, messages
    log,          \* the error messages logged so far
    rd,           \* the stream reader of one connection, modelled byte by byte
    fmt           \* a formatter under test: its position, its input and its output

cfgVars == <<cfgPc, conf, cons, cfgResult>>
runVars == <<active, shutdownReq, burned, fuseWaiters, listen, closeCount,
             consumePc, acceptorPc, workers, pending, accepted, conn, log>>
unitVars == <<rd, fmt>>
vars == <<cfgPc, conf, cons, cfgResult, active, shutdownReq, burned, fuseWaiters,
          listen, closeCount, consumePc, acceptorPc, workers, pending, accepted,
          conn, log, rd, fmt>>

----------------------------------------------------------------------------
(* Bounds of the model. *)

\* Connections the peers open in one run.
MaxConn == 2
\* Bytes the peers send in one run, over all connections.
MaxBytes == 2
\* The largest Size and Offset option drawn for Configure.
MaxOpt == 8

----------------------------------------------------------------------------
(* Strings as sequences of characters. *)

Str_tcp == <<"t", "c", "p">>
Str_udp == <<"u", "d", "p">>
Str_unix == <<"u", "n", "i", "x">>
Str_delimiter == <<"d", "e", "l", "i", "m", "i", "t", "e", "r">>
Str_ascii == <<"a", "s", "c", "i", "i">>
Str_binary == <<"b", "i", "n", "a", "r", "y">>
Str_binary_le == <<"b", "i", "n", "a", "r", "y", "_", "l", "e">>
Str_binary_be == <<"b", "i", "n", "a", "r", "y", "_", "b", "e">>
Str_fixed == <<"f", "i", "x", "e", "d">>
Str_sep == <<":", "/", "/">>

UpperToLower ==
    [A |-> "a", B |-> "b", C |-> "c", D |-> "d", E |-> "e", F |-> "f", G |-> "g",
     H |-> "h", I |-> "i", J |-> "j", K |-> "k", L |-> "l", M |-> "m", N |-> "n",
     O |-> "o", P |-> "p", Q |-> "q", R |-> "r", S |-> "s", T |-> "t", U |-> "u",
     V |-> "v", W |-> "w", X |-> "x", Y |-> "y", Z |-> "z"]

\* strings.ToLower
ToLower(s) ==
    [i \in 1..Len(s) |-> IF s[i] \in DOMAIN UpperToLower THEN UpperToLower[s[i]] ELSE s[i]]

\* strings.Index: the first position (from 0) where sub starts in s, or -1
Index(s, sub) ==
    LET hits == {i \in 0..(Len(s) - Len(sub)) : SubSeq(s, i + 1, i + Len(sub)) = sub}
    IN  IF hits = {} THEN -1 ELSE CHOOSE i \in hits : \A j \in hits : i <= j

\* tnet.ParseAddress: "proto://addr" gives (addr, lower-case proto), anything else is tcp
ParseAddress(s) ==
    LET idx == Index(s, Str_sep)
    IN  IF idx = -1
        THEN [address |-> s, protocol |-> Str_tcp]
        ELSE [address |-> SubSeq(s, idx + 4, Len(s)),
              protocol |-> ToLower(SubSeq(s, 1, idx))]

EscapeChars == [n |-> "\n", r |-> "\r", t |-> "\t"]

\* A delimiter taken as it is written, escape sequences left alone.
UnescapeNothing(s) == s

\* tstrings.Unescape: a backslash followed by n, r or t becomes the control character
RECURSIVE Unescape(_)
Unescape(s) ==
    IF Len(s) = 0 THEN <<>>
    ELSE IF Len(s) >= 2 /\ s[1] = "\\" /\ s[2] \in DOMAIN EscapeChars
         THEN <<EscapeChars[s[2]]>> \o Unescape(SubSeq(s, 3, Len(s)))
         ELSE <<s[1]>> \o Unescape(Tail(s))

----------------------------------------------------------------------------
(* Configure (proxy.go 99-147). *)

Nil == "nil"
NoError == [nil |-> TRUE, messages |-> <<>>]

\* A configuration option is a set: empty when the option is not given.
GetString(c, key, default) == IF c[key] = {} THEN default ELSE CHOOSE v \in c[key] : TRUE
GetInt(c, key, default) == IF c[key] = {} THEN default ELSE CHOOSE v \in c[key] : TRUE

\* tgo.ErrorStack: Push keeps a non-nil error, Pushf always adds one
Push(stack, err) == IF err = Nil THEN stack ELSE Append(stack, err)
Pushf(stack, msg) == Append(stack, msg)
ErrorOrNil(stack) ==
    IF Len(stack) = 0 THEN NoError ELSE [nil |-> FALSE, messages |-> stack]

ErrBase == "ConsumerBase.Configure failed"
ErrUDP == "Proxy does not support UDP"
ErrSize == "Size only supports the value 1,2,4 and 8"
ErrPartitioner == "Unknown partitioner"

\* core.ConsumerBase.Configure: the base plugin's own configuration result
BaseConfigure(c) == IF c.baseFails THEN ErrBase ELSE Nil

DefaultAddress == <<":", "5", "8", "8", "0">>
DefaultDelimiter == <<"\\", "n">>

\* A switch on Size whose case 1 runs on into case 2.
BinarySizeFallsThrough(size, flags, stack) ==
    CASE size = 1 -> [flags |-> flags \cup {"MLE8", "MLE16"}, stack |-> stack]
      [] size = 2 -> [flags |-> flags \cup {"MLE16"}, stack |-> stack]
      [] size = 4 -> [flags |-> flags \cup {"MLE32"}, stack |-> stack]
      [] size = 8 -> [flags |-> flags \cup {"MLE64"}, stack |-> stack]
      [] OTHER -> [flags |-> flags, stack |-> Pushf(stack, ErrSize)]

\* the inner switch on Size of the binary partitioners (119-130)
BinarySize(size, flags, stack) ==
    CASE size = 1 -> [flags |-> flags \cup {"MLE8"}, stack |-> stack]
      [] size = 2 -> [flags |-> flags \cup {"MLE16"}, stack |-> stack]
      [] size = 4 -> [flags |-> flags \cup {"MLE32"}, stack |-> stack]
      [] size = 8 -> [flags |-> flags \cup {"MLE64"}, stack |-> stack]
      [] OTHER -> [flags |-> flags, stack |-> Pushf(stack, ErrSize)]

\* A fail-fast Configure: it returns at the first violation it meets.
ConfigureFailFast(c) ==
    LET base == BaseConfigure(c)
        pa == ParseAddress(GetString(c, "Address", DefaultAddress))
        partitioner == ToLower(GetString(c, "Partitioner", Str_delimiter))
        none == [protocol |-> pa.protocol, address |-> pa.address, flags |-> {"Everything"},
                 delimiter |-> <<>>, offset |-> 0]
    IN  IF base # Nil THEN [cons |-> none, err |-> ErrorOrNil(<<base>>)]
        ELSE IF pa.protocol = Str_udp THEN [cons |-> none, err |-> ErrorOrNil(<<ErrUDP>>)]
        ELSE IF partitioner \in {Str_binary, Str_binary_le, Str_binary_be}
                /\ GetInt(c, "Size", 4) \notin {1, 2, 4, 8}
             THEN [cons |-> none, err |-> ErrorOrNil(<<ErrSize>>)]
        ELSE IF partitioner \notin {Str_binary, Str_binary_le, Str_binary_be, Str_fixed,
                                    Str_ascii, Str_delimiter}
             THEN [cons |-> none, err |-> ErrorOrNil(<<ErrPartitioner>>)]
        ELSE [cons |-> none, err |-> NoError]

\* A Configure whose fixed partitioner leaves the offset field to the Offset option.
ConfigureKeepsOffset(c) ==
    LET e0 == Push(<<>>, BaseConfigure(c))
        pa == ParseAddress(GetString(c, "Address", DefaultAddress))
        e1 == IF pa.protocol = Str_udp THEN Pushf(e0, ErrUDP) ELSE e0
        delimiter == Unescape(GetString(c, "Delimiter", DefaultDelimiter))
        offset0 == GetInt(c, "Offset", 0)
        flags0 == {"Everything"}
        partitioner == ToLower(GetString(c, "Partitioner", Str_delimiter))
        flags1 == IF partitioner = Str_binary_be THEN flags0 \cup {"BigEndian"} ELSE flags0
        bin == BinarySize(GetInt(c, "Size", 4), flags1, e1)
        sw == CASE partitioner \in {Str_binary_be, Str_binary, Str_binary_le} ->
                     [flags |-> bin.flags, offset |-> offset0, stack |-> bin.stack]
                [] partitioner = Str_fixed ->
                     [flags |-> flags1 \cup {"MLEFixed"}, offset |-> offset0, stack |-> e1]
                [] partitioner = Str_ascii ->
                     [flags |-> flags1 \cup {"MLE"}, offset |-> offset0, stack |-> e1]
                [] partitioner = Str_delimiter ->
                     [flags |-> flags1, offset |-> offset0, stack |-> e1]
                [] OTHER ->
                     [flags |-> flags1, offset |-> offset0,
                      stack |-> Pushf(e1, ErrPartitioner)]
    IN  [cons |-> [protocol |-> pa.protocol, address |-> pa.address, flags |-> sw.flags,
                   delimiter |-> delimiter, offset |-> sw.offset],
         err |-> ErrorOrNil(sw.stack)]

\* Proxy.Configure: the configured fields and the returned error
Configure(c) ==
    LET e0 == Push(<<>>, BaseConfigure(c))                                  \* 100-101
        pa == ParseAddress(GetString(c, "Address", DefaultAddress))         \* 103
        e1 == IF pa.protocol = Str_udp THEN Pushf(e0, ErrUDP) ELSE e0       \* 104-106
        delimiter == Unescape(GetString(c, "Delimiter", DefaultDelimiter))  \* 108
        offset0 == GetInt(c, "Offset", 0)                                   \* 109
        flags0 == {"Everything"}                                            \* 110
        partitioner == ToLower(GetString(c, "Partitioner", Str_delimiter))  \* 112
        \* case "binary_be" sets the big endian flag and falls through (114-116)
        flags1 == IF partitioner = Str_binary_be THEN flags0 \cup {"BigEndian"} ELSE flags0
        bin == BinarySize(GetInt(c, "Size", 4), flags1, e1)
        sw == CASE partitioner \in {Str_binary_be, Str_binary, Str_binary_le} ->
                     [flags |-> bin.flags, offset |-> offset0, stack |-> bin.stack]
                [] partitioner = Str_fixed ->                               \* 132-134
                     [flags |-> flags1 \cup {"MLEFixed"}, offset |-> GetInt(c, "Size", 1),
                      stack |-> e1]
                [] partitioner = Str_ascii ->                               \* 136-137
                     [flags |-> flags1 \cup {"MLE"}, offset |-> offset0, stack |-> e1]
                [] partitioner = Str_delimiter ->                           \* 139-140
                     [flags |-> flags1, offset |-> offset0, stack |-> e1]
                [] OTHER ->                                                 \* 142-143
                     [flags |-> flags1, offset |-> offset0,
                      stack |-> Pushf(e1, ErrPartitioner)]
    IN  [cons |-> [protocol |-> pa.protocol, address |-> pa.address, flags |-> sw.flags,
                   delimiter |-> delimiter, offset |-> sw.offset],
         err |-> ErrorOrNil(sw.stack)]                                      \* 146

\* The configurations Configure is run on.
Addresses ==
    {DefaultAddress,
     Str_udp \o Str_sep \o <<":", "1">>,
     <<"U", "D", "P">> \o Str_sep \o <<":", "1">>,
     Str_unix \o Str_sep \o <<"/", "s">>}
Partitioners ==
    {Str_delimiter, Str_ascii, Str_binary, Str_binary_le, Str_binary_be, Str_fixed,
     <<"F", "i", "x", "e", "d">>, <<"B", "I", "N", "A", "R", "Y", "_", "B", "E">>,
     <<"t", "e", "x", "t">>}
Delimiters == {<<"\\", "t">>, <<"|">>}
OptInts == {-1, 0, 1, 2, 3, 4} \cup {MaxOpt}
Optional(S) == {{}} \cup {{v} : v \in S}
Configs ==
    [Address : Optional(Addresses), Partitioner : Optional(Partitioners),
     Delimiter : Optional(Delimiters), Offset : Optional({0, 2}),
     Size : Optional(OptInts), baseFails : BOOLEAN]

\* The configuration of the running consumer: every option at its default.
DefaultConfig ==
    [Address |-> {}, Partitioner |-> {}, Delimiter |-> {}, Offset |-> {}, Size |-> {},
     baseFails |-> FALSE]

ConfigureCall ==
    /\ cfgPc = "init"
    /\ cfgPc' = "configured"
    /\ cons' = Configure(conf).cons
    /\ cfgResult' = Configure(conf).err
    /\ UNCHANGED conf
    /\ UNCHANGED <<runVars, unitVars>>

----------------------------------------------------------------------------
(* The consumer base, the fuse and the worker group the Proxy builds on.   *)

Acceptor == "acceptor"
Conns == 1..MaxConn

\* core.ConsumerBase.IsActive: the atomic read of the active flag
IsActive == active

\* Fuse.isBurned
IsFuseBurned == burned

\* Fuse.burn, by the external pressure authority
Burn ==
    /\ ~burned
    /\ burned' = TRUE
    /\ UNCHANGED <<active, shutdownReq, fuseWaiters, listen, closeCount, consumePc,
                   acceptorPc, workers, pending, accepted, conn, log>>
    /\ UNCHANGED <<cfgVars, unitVars>>

\* Fuse.clear, by the external pressure authority: every blocked waiter is woken
Clear ==
    /\ burned
    /\ burned' = FALSE
    /\ fuseWaiters' = {}
    /\ UNCHANGED <<active, shutdownReq, listen, closeCount, consumePc, acceptorPc,
                   workers, pending, accepted, conn, log>>
    /\ UNCHANGED <<cfgVars, unitVars>>

\* The owner of the consumer sends the stop command on the control channel.
RequestShutdown ==
    /\ active
    /\ ~shutdownReq
    /\ shutdownReq' = TRUE
    /\ UNCHANGED <<active, burned, fuseWaiters, listen, closeCount, consumePc,
                   acceptorPc, workers, pending, accepted, conn, log>>
    /\ UNCHANGED <<cfgVars, unitVars>>

\* A peer connects to the listening socket and waits in its backlog.
PeerConnect ==
    /\ listen \in {"open", "failed"}
    /\ pending + accepted < MaxConn
    /\ pending' = pending + 1
    /\ UNCHANGED <<active, shutdownReq, burned, fuseWaiters, listen, closeCount,
                   consumePc, acceptorPc, workers, accepted, conn, log>>
    /\ UNCHANGED <<cfgVars, unitVars>>

\* The listening socket breaks: from now on its accept calls return an error.
ListenerFault ==
    /\ listen = "open"
    /\ listen' = "failed"
    /\ UNCHANGED <<active, shutdownReq, burned, fuseWaiters, closeCount, consumePc,
                   acceptorPc, workers, pending, accepted, conn, log>>
    /\ UNCHANGED <<cfgVars, unitVars>>

----------------------------------------------------------------------------
(* Consume (proxy.go 169-184). *)

LogBind == "Proxy connection error"
LogListen == "Proxy listen failed"
LogPartial == "partial trailing data discarded"
LogMalformed == "malformed frame"

\* net.Listen succeeds (172)
ConsumeListen ==
    /\ consumePc = "start"
    /\ listen' = "open"
    /\ consumePc' = "go"
    /\ UNCHANGED <<active, shutdownReq, burned, fuseWaiters, closeCount, acceptorPc,
                   workers, pending, accepted, conn, log>>
    /\ UNCHANGED <<cfgVars, unitVars>>

\* Consume without the return at 174: the failure is logged and Consume goes on.
ConsumeListenFailsGoesOn ==
    /\ consumePc = "start"
    /\ log' = log \cup {LogBind}
    /\ consumePc' = "go"
    /\ UNCHANGED <<active, shutdownReq, burned, fuseWaiters, listen, closeCount,
                   acceptorPc, workers, pending, accepted, conn>>
    /\ UNCHANGED <<cfgVars, unitVars>>

\* net.Listen fails: the error is logged and Consume returns (172-175)
ConsumeListenFails ==
    /\ consumePc = "start"
    /\ log' = log \cup {LogBind}
    /\ consumePc' = "returned"
    /\ UNCHANGED <<active, shutdownReq, burned, fuseWaiters, listen, closeCount,
                   acceptorPc, workers, pending, accepted, conn>>
    /\ UNCHANGED <<cfgVars, unitVars>>

\* the accept task is started; Consume defers the Close and enters ControlLoop (177-183)
ConsumeGo ==
    /\ consumePc = "go"
    /\ acceptorPc' = "addWorker"
    /\ consumePc' = "controlLoop"
    /\ UNCHANGED <<active, shutdownReq, burned, fuseWaiters, listen, closeCount,
                   workers, pending, accepted, conn, log>>
    /\ UNCHANGED <<cfgVars, unitVars>>

\* core.ConsumerBase.ControlLoop: blocks until the stop command, marks the consumer
\* inactive and returns
ControlLoop ==
    /\ consumePc = "controlLoop"
    /\ shutdownReq
    /\ shutdownReq' = FALSE
    /\ active' = FALSE
    /\ consumePc' = "deferred"
    /\ UNCHANGED <<burned, fuseWaiters, listen, closeCount, acceptorPc, workers,
                   pending, accepted, conn, log>>
    /\ UNCHANGED <<cfgVars, unitVars>>

\* Consume without the deferred Close: it returns and leaves the listener open.
ConsumeReturnsOpen ==
    /\ consumePc = "deferred"
    /\ consumePc' = "returned"
    /\ UNCHANGED <<active, shutdownReq, burned, fuseWaiters, listen, closeCount,
                   acceptorPc, workers, pending, accepted, conn, log>>
    /\ UNCHANGED <<cfgVars, unitVars>>

\* Consume closing the listener after ControlLoop and again in the deferred call.
ConsumeClosesTwice ==
    /\ consumePc = "deferred"
    /\ listen' = "closed"
    /\ closeCount' = closeCount + 2
    /\ consumePc' = "returned"
    /\ UNCHANGED <<active, shutdownReq, burned, fuseWaiters, acceptorPc, workers,
                   pending, accepted, conn, log>>
    /\ UNCHANGED <<cfgVars, unitVars>>

\* the deferred cons.listen.Close() runs and Consume returns (182)
ConsumeClose ==
    /\ consumePc = "deferred"
    /\ listen' = "closed"
    /\ closeCount' = closeCount + 1
    /\ consumePc' = "returned"
    /\ UNCHANGED <<active, shutdownReq, burned, fuseWaiters, acceptorPc, workers,
                   pending, accepted, conn, log>>
    /\ UNCHANGED <<cfgVars, unitVars>>

ConsumeNext ==
    \/ ConsumeListen
    \/ ConsumeListenFails
    \/ ConsumeGo
    \/ ControlLoop
    \/ ConsumeClose

----------------------------------------------------------------------------
(* The accept task (proxy.go 149-166, started at 177-180). *)

\* cons.AddMainWorker(workers) (178)
AcceptorAddWorker ==
    /\ acceptorPc = "addWorker"
    /\ workers' = workers + 1
    /\ acceptorPc' = "loop"
    /\ UNCHANGED <<active, shutdownReq, burned, fuseWaiters, listen, closeCount,
                   consumePc, pending, accepted, conn, log>>
    /\ UNCHANGED <<cfgVars, unitVars>>

\* for cons.IsActive() (153)
AcceptorLoop ==
    /\ acceptorPc = "loop"
    /\ acceptorPc' = IF IsActive THEN "waitOnFuse" ELSE "done"
    /\ UNCHANGED <<active, shutdownReq, burned, fuseWaiters, listen, closeCount,
                   consumePc, workers, pending, accepted, conn, log>>
    /\ UNCHANGED <<cfgVars, unitVars>>

\* An accept loop that gives up when it finds the fuse burned instead of waiting.
AcceptorLeavesOnBurnedFuse ==
    /\ acceptorPc = "waitOnFuse"
    /\ acceptorPc' = IF IsFuseBurned THEN "done" ELSE "accept"
    /\ UNCHANGED <<active, shutdownReq, burned, fuseWaiters, listen, closeCount,
                   consumePc, workers, pending, accepted, conn, log>>
    /\ UNCHANGED <<cfgVars, unitVars>>

\* cons.WaitOnFuse() is called: it blocks when the fuse is burned (154)
AcceptorWaitOnFuse ==
    /\ acceptorPc = "waitOnFuse"
    /\ IF IsFuseBurned
       THEN /\ fuseWaiters' = fuseWaiters \cup {Acceptor}
            /\ acceptorPc' = "blocked"
       ELSE /\ acceptorPc' = "accept"
            /\ UNCHANGED fuseWaiters
    /\ UNCHANGED <<active, shutdownReq, burned, listen, closeCount, consumePc,
                   workers, pending, accepted, conn, log>>
    /\ UNCHANGED <<cfgVars, unitVars>>

\* cons.WaitOnFuse() returns once the fuse was cleared; Accept is called (154-156)
AcceptorWaitReturns ==
    /\ acceptorPc = "blocked"
    /\ Acceptor \notin fuseWaiters
    /\ acceptorPc' = "accept"
    /\ UNCHANGED <<active, shutdownReq, burned, fuseWaiters, listen, closeCount,
                   consumePc, workers, pending, accepted, conn, log>>
    /\ UNCHANGED <<cfgVars, unitVars>>

\* listener.Accept() returns a connection (156)
AcceptorAccept ==
    /\ acceptorPc = "accept"
    /\ listen = "open"
    /\ pending > 0
    /\ pending' = pending - 1
    /\ accepted' = accepted + 1
    /\ conn' = [conn EXCEPT ![accepted + 1].sock = "open"]
    /\ acceptorPc' = "spawn"
    /\ UNCHANGED <<active, shutdownReq, burned, fuseWaiters, listen, closeCount,
                   consumePc, workers, log>>
    /\ UNCHANGED <<cfgVars, unitVars>>

\* listener.Accept() returns an error: the listener is broken or closed (156-157)
AcceptorAcceptFails ==
    /\ acceptorPc = "accept"
    /\ listen \in {"failed", "closed"}
    /\ acceptorPc' = "failed"
    /\ UNCHANGED <<active, shutdownReq, burned, fuseWaiters, listen, closeCount,
                   consumePc, workers, pending, accepted, conn, log>>
    /\ UNCHANGED <<cfgVars, unitVars>>

\* An accept loop that retries Accept after an error instead of leaving the loop.
AcceptorRetries ==
    /\ acceptorPc = "failed"
    /\ log' = IF IsActive THEN log \cup {LogListen} ELSE log
    /\ acceptorPc' = "accept"
    /\ UNCHANGED <<active, shutdownReq, burned, fuseWaiters, listen, closeCount,
                   consumePc, workers, pending, accepted, conn>>
    /\ UNCHANGED <<cfgVars, unitVars>>

\* An accept loop that logs every accept error, whatever the active flag says.
AcceptorLogsAlways ==
    /\ acceptorPc = "failed"
    /\ log' = log \cup {LogListen}
    /\ acceptorPc' = "done"
    /\ UNCHANGED <<active, shutdownReq, burned, fuseWaiters, listen, closeCount,
                   consumePc, workers, pending, accepted, conn>>
    /\ UNCHANGED <<cfgVars, unitVars>>

\* the error is logged when the consumer is still active, and the loop is left (158-161)
AcceptorBreak ==
    /\ acceptorPc = "failed"
    /\ log' = IF IsActive THEN log \cup {LogListen} ELSE log
    /\ acceptorPc' = "done"
    /\ UNCHANGED <<active, shutdownReq, burned, fuseWaiters, listen, closeCount,
                   consumePc, workers, pending, accepted, conn>>
    /\ UNCHANGED <<cfgVars, unitVars>>

\* An accept loop that drops the accepted client without starting its handler.
AcceptorDropsClient ==
    /\ acceptorPc = "spawn"
    /\ acceptorPc' = "loop"
    /\ UNCHANGED <<active, shutdownReq, burned, fuseWaiters, listen, closeCount,
                   consumePc, workers, pending, accepted, conn, log>>
    /\ UNCHANGED <<cfgVars, unitVars>>

\* An accept loop that calls the handler in its own task and does not come back.
AcceptorServesInline ==
    /\ acceptorPc = "spawn"
    /\ conn' = [conn EXCEPT ![accepted].h = "loop"]
    /\ acceptorPc' = "serving"
    /\ UNCHANGED <<active, shutdownReq, burned, fuseWaiters, listen, closeCount,
                   consumePc, workers, pending, accepted, log>>
    /\ UNCHANGED <<cfgVars, unitVars>>

\* go listenToProxyClient(client, cons) (164)
AcceptorSpawn ==
    /\ acceptorPc = "spawn"
    /\ conn' = [conn EXCEPT ![accepted].h = "loop"]
    /\ acceptorPc' = "loop"
    /\ UNCHANGED <<active, shutdownReq, burned, fuseWaiters, listen, closeCount,
                   consumePc, workers, pending, accepted, log>>
    /\ UNCHANGED <<cfgVars, unitVars>>

\* the deferred cons.WorkerDone() runs and the task ends (150)
AcceptorWorkerDone ==
    /\ acceptorPc = "done"
    /\ workers' = workers - 1
    /\ acceptorPc' = "stopped"
    /\ UNCHANGED <<active, shutdownReq, burned, fuseWaiters, listen, closeCount,
                   consumePc, pending, accepted, conn, log>>
    /\ UNCHANGED <<cfgVars, unitVars>>

AcceptorNext ==
    \/ AcceptorAddWorker
    \/ AcceptorLoop
    \/ AcceptorWaitOnFuse
    \/ AcceptorWaitReturns
    \/ AcceptorAccept
    \/ AcceptorAcceptFails
    \/ AcceptorBreak
    \/ AcceptorSpawn
    \/ AcceptorWorkerDone

----------------------------------------------------------------------------
(* The connection handler of one accepted connection, framing by delimiter. *)
(* One step is one cycle of its loop: the cooperative check of the active    *)
(* flag and the fuse, then what the read brought.                            *)

BytesRead == LET Sum[c \in 0..MaxConn] == IF c = 0 THEN 0 ELSE Sum[c - 1] + conn[c].read
             IN  Sum[MaxConn]

\* the cooperative check finds the consumer inactive or the fuse burned: the
\* connection is closed and what is buffered is dropped
HandlerClose(c) ==
    /\ conn[c].h = "loop"
    /\ ~IsActive \/ IsFuseBurned
    /\ conn' = [conn EXCEPT ![c].h = "closed", ![c].sock = "closed", ![c].buf = 0]
    /\ UNCHANGED <<active, shutdownReq, burned, fuseWaiters, listen, closeCount,
                   consumePc, acceptorPc, workers, pending, accepted, log>>
    /\ UNCHANGED <<cfgVars, unitVars>>

\* a byte is read: a delimiter completes the frame, which is delivered with it; any
\* other byte stays buffered
HandlerRead(c) ==
    /\ conn[c].h = "loop"
    /\ IsActive /\ ~IsFuseBurned
    /\ BytesRead < MaxBytes
    /\ \E delimiter \in BOOLEAN :
          conn' = IF delimiter
                  THEN [conn EXCEPT ![c].read = @ + 1, ![c].buf = 0,
                                    ![c].delivered = @ + conn[c].buf + 1]
                  ELSE [conn EXCEPT ![c].read = @ + 1, ![c].buf = @ + 1]
    /\ UNCHANGED <<active, shutdownReq, burned, fuseWaiters, listen, closeCount,
                   consumePc, acceptorPc, workers, pending, accepted, log>>
    /\ UNCHANGED <<cfgVars, unitVars>>

\* the peer closed the stream: leftover bytes are dropped and reported as an error,
\* the connection is closed
HandlerReadEOF(c) ==
    /\ conn[c].h = "loop"
    /\ IsActive /\ ~IsFuseBurned
    /\ conn' = [conn EXCEPT ![c].h = "closed", ![c].sock = "closed", ![c].buf = 0]
    /\ log' = IF conn[c].buf > 0 THEN log \cup {LogPartial} ELSE log
    /\ UNCHANGED <<active, shutdownReq, burned, fuseWaiters, listen, closeCount,
                   consumePc, acceptorPc, workers, pending, accepted>>
    /\ UNCHANGED <<cfgVars, unitVars>>

HandlerNext(c) ==
    \/ HandlerClose(c)
    \/ HandlerRead(c)
    \/ HandlerReadEOF(c)

----------------------------------------------------------------------------
(* The stream reader of one connection: the buffered reader the handler      *)
(* builds from the configured flags, offset and delimiter. Bytes are the     *)
(* numbers 0..255. One read appends what arrived to the buffer, then frames  *)
(* are taken from the front of the buffer until none is complete.            *)

\* the byte of a character of a configured string
Ord(ch) ==
    CASE ch = "\t" -> 9
      [] ch = "\n" -> 10
      [] ch = "\r" -> 13
      [] ch = "\\" -> 92
      [] ch = "n" -> 110
      [] ch = "r" -> 114
      [] ch = "t" -> 116
      [] ch = "|" -> 124
      [] OTHER -> 63
ToBytes(s) == [i \in 1..Len(s) |-> Ord(s[i])]

\* The largest payload a length prefix may declare.
MaxPayload == 3

LengthFlags == {"MLE8", "MLE16", "MLE32", "MLE64"}

\* the framing kind the flags select
Kind(flags) ==
    CASE "MLEFixed" \in flags -> "fixed"
      [] "MLE" \in flags -> "ascii"
      [] flags \cap LengthFlags # {} -> "binary"
      [] OTHER -> "delimiter"

\* the width in bytes of a binary length prefix
LengthWidth(flags) ==
    CASE "MLE8" \in flags -> 1
      [] "MLE16" \in flags -> 2
      [] "MLE32" \in flags -> 4
      [] OTHER -> 8

\* a binary length prefix, least significant byte first
RECURSIVE LittleEndian(_)
LittleEndian(b) == IF Len(b) = 0 THEN 0 ELSE b[1] + 256 * LittleEndian(Tail(b))
Reverse(b) == [i \in 1..Len(b) |-> b[Len(b) + 1 - i]]
DecodeLength(b, flags) ==
    IF "BigEndian" \in flags THEN LittleEndian(Reverse(b)) ELSE LittleEndian(b)

\* an ASCII length prefix: decimal digits, most significant first
IsDigits(b) == Len(b) > 0 /\ \A i \in 1..Len(b) : b[i] \in 48..57
RECURSIVE ParseDecimal(_)
ParseDecimal(b) ==
    IF Len(b) = 0 THEN 0
    ELSE 10 * ParseDecimal(SubSeq(b, 1, Len(b) - 1)) + (b[Len(b)] - 48)

Found(end) == [res |-> "Found", end |-> end]
NeedMoreData == [res |-> "NeedMoreData", end |-> 0]
MalformedFrame == [res |-> "MalformedFrame", end |-> 0]

\* a frame of payload length n behind a length prefix that ends at byte head
Declared(buf, head, n) ==
    IF n > MaxPayload THEN MalformedFrame
    ELSE IF Len(buf) < head + n THEN NeedMoreData
    ELSE Found(head + n)

\* the partitioner: where the first frame of buf ends, for the configured fields c
TryExtract(c, buf) ==
    LET d == ToBytes(c.delimiter)
        kind == Kind(c.flags)
        w == LengthWidth(c.flags)
        idx == Index(buf, d)
        rest == SubSeq(buf, c.offset + 1, Len(buf))
        at == Index(rest, d)
    IN  CASE kind = "delimiter" ->
               IF idx = -1 THEN NeedMoreData ELSE Found(idx + Len(d))
          [] kind = "ascii" ->
               IF Len(buf) <= c.offset \/ at = -1 THEN NeedMoreData
               ELSE IF ~IsDigits(SubSeq(rest, 1, at)) THEN MalformedFrame
               ELSE Declared(buf, c.offset + at + Len(d), ParseDecimal(SubSeq(rest, 1, at)))
          [] kind = "binary" ->
               IF Len(buf) < c.offset + w THEN NeedMoreData
               ELSE Declared(buf, c.offset + w, DecodeLength(SubSeq(rest, 1, w), c.flags))
          [] OTHER ->
               \* fixed: the offset field carries the frame size
               IF c.offset < 1 THEN MalformedFrame
               ELSE IF Len(buf) < c.offset THEN NeedMoreData
               ELSE Found(c.offset)

\* A reader that takes one frame for each read.
ExtractOne(c, buf, out) ==
    LET r == TryExtract(c, buf)
    IN  CASE r.res = "Found" ->
               [buf |-> SubSeq(buf, r.end + 1, Len(buf)),
                out |-> Append(out, SubSeq(buf, 1, r.end)), state |-> "open"]
          [] r.res = "NeedMoreData" -> [buf |-> buf, out |-> out, state |-> "open"]
          [] OTHER -> [buf |-> <<>>, out |-> out, state |-> "malformed"]

\* the partitioner is invoked until no frame is complete; each frame found is a message
RECURSIVE ExtractAll(_, _, _)
ExtractAll(c, buf, out) ==
    LET r == TryExtract(c, buf)
    IN  CASE r.res = "Found" ->
               ExtractAll(c, SubSeq(buf, r.end + 1, Len(buf)),
                          Append(out, SubSeq(buf, 1, r.end)))
          [] r.res = "NeedMoreData" -> [buf |-> buf, out |-> out, state |-> "open"]
          [] OTHER -> [buf |-> <<>>, out |-> out, state |-> "malformed"]

\* one read delivers the next k bytes of the stream
ReaderRead ==
    /\ rd.state = "open"
    /\ \E k \in 1..(Len(rd.stream) - rd.pos) :
          LET r == ExtractAll(cons, rd.buf \o SubSeq(rd.stream, rd.pos + 1, rd.pos + k),
                              rd.out)
          IN  rd' = [rd EXCEPT !.pos = @ + k, !.reads = @ + 1, !.buf = r.buf,
                               !.out = r.out, !.state = r.state]
    /\ UNCHANGED <<cfgVars, runVars, fmt>>

\* the stream ends: bytes that never completed a frame are discarded
ReaderEOF ==
    /\ rd.state = "open"
    /\ rd.pos = Len(rd.stream)
    /\ rd' = [rd EXCEPT !.state = "eof", !.dropped = rd.buf, !.buf = <<>>]
    /\ UNCHANGED <<cfgVars, runVars, fmt>>

\* The streams and the configurations the reader is run on.
MaxStream == 4
SeqsUpTo(S, n) == UNION {[1..m -> S] : m \in 0..n}
Str_crlf == <<"\\", "r", "\\", "n">>
FramingConfigs ==
    {[DefaultConfig EXCEPT !.Delimiter = d] : d \in Optional({Str_crlf, <<"|">>})}
    \cup {[DefaultConfig EXCEPT !.Partitioner = {Str_fixed}, !.Size = {n}, !.Offset = {5}]
             : n \in {2, 3}}
    \cup {[DefaultConfig EXCEPT !.Partitioner = {Str_fixed}, !.Offset = {4}],
          [DefaultConfig EXCEPT !.Partitioner = {Str_binary}, !.Size = {1}],
          [DefaultConfig EXCEPT !.Partitioner = {Str_binary_be}, !.Size = {2},
                                !.Offset = {1}],
          [DefaultConfig EXCEPT !.Partitioner = {Str_binary_le}, !.Size = {2}],
          [DefaultConfig EXCEPT !.Partitioner = {Str_ascii}]}
Alphabet(flags) ==
    CASE Kind(flags) = "delimiter" -> {97, 10, 13, 124}
      [] Kind(flags) = "ascii" -> {49, 50, 10, 97}
      [] Kind(flags) = "binary" /\ "MLE8" \in flags -> {0, 1, 2, 9}
      [] Kind(flags) = "binary" -> {0, 1}
      [] OTHER -> {97, 98}

----------------------------------------------------------------------------
(* The handler of a connection framed by a binary length prefix: besides the *)
(* steps above (a byte that completes a frame, a byte that does not, the end *)
(* of the stream) a read can bring a length field that declares more than    *)
(* the largest payload.                                                      *)

\* a malformed frame: logged, and the handler closes its connection and ends
HandlerMalformed(c) ==
    /\ conn[c].h = "loop"
    /\ IsActive /\ ~IsFuseBurned
    /\ BytesRead < MaxBytes
    /\ Kind(cons.flags) = "binary"
    /\ conn' = [conn EXCEPT ![c].h = "malformed", ![c].sock = "closed",
                            ![c].read = @ + 1, ![c].buf = 0]
    /\ log' = log \cup {LogMalformed}
    /\ UNCHANGED <<active, shutdownReq, burned, fuseWaiters, listen, closeCount,
                   consumePc, acceptorPc, workers, pending, accepted>>
    /\ UNCHANGED <<cfgVars, unitVars>>

----------------------------------------------------------------------------
(* The SplitToJSON formatter (format/splittojson.go 71-98). Strings and byte  *)
(* slices are sequences of characters.                                        *)

\* bytes.Split with a separator that is not empty: the pieces between the
\* occurrences of the separator, one piece for data without any
RECURSIVE Split(_, _)
Split(data, sep) ==
    LET idx == Index(data, sep)
    IN  IF idx = -1 THEN <<data>>
        ELSE <<SubSeq(data, 1, idx)>> \o Split(SubSeq(data, idx + Len(sep) + 1, Len(data)), sep)

\* shared.MinI
MinI(a, b) == IF a < b THEN a ELSE b

\* shared.EscapeJSON: a backslash before every backslash and every double quote
RECURSIVE EscapeJSON(_)
EscapeJSON(text) ==
    IF Len(text) = 0 THEN <<>>
    ELSE IF text[1] \in {"\\", "\""}
         THEN <<"\\", text[1]>> \o EscapeJSON(Tail(text))
         ELSE <<text[1]>> \o EscapeJSON(Tail(text))

\* "\"%s\":\"%s\"" of the escaped key and value (86-91)
Pair(key, value) == <<"\"">> \o key \o <<"\"", ":", "\"">> \o value \o <<"\"">>

\* the loop of the default case (82-93), from index i (counted from 0) on
RECURSIVE SplitLoop(_, _, _, _, _)
SplitLoop(i, maxIdx, keys, components, jsonData) ==
    IF i >= maxIdx THEN jsonData
    ELSE LET key == EscapeJSON(keys[i + 1])
             value == EscapeJSON(components[i + 1])
             next == CASE i = 0 -> <<"{">> \o Pair(key, value)
                       [] i = maxIdx - 1 -> jsonData \o <<",">> \o Pair(key, value) \o <<"}">>
                       [] OTHER -> jsonData \o <<",">> \o Pair(key, value)
         IN  SplitLoop(i + 1, maxIdx, keys, components, next)

\* SplitToJSON.Format, on what the nested formatter returned for the message
SplitToJSONFormat(keys, token, base) ==
    LET components == Split(base.data, token)                          \* 74
        maxIdx == MinI(Len(keys), Len(components))                      \* 75
        jsonData ==
            CASE maxIdx = 0 -> <<>>                                     \* 76, 79
              [] maxIdx = 1 ->                                          \* 80-81
                   <<"{">> \o keys[1] \o <<":", "\"">> \o components[1] \o <<"\"", "}">>
              [] OTHER -> SplitLoop(0, maxIdx, keys, components, <<>>)  \* 82-94
    IN  [data |-> jsonData, streamID |-> base.streamID]                 \* 97

\* The inputs Format is run on.
MaxKeys == 2
MaxData == 3
DefaultToken == <<"|">>
KeyNames == {<<"k">>, <<"a", "\"">>}
StreamIDs == {1, 2}
NoOutput == [data |-> <<>>, streamID |-> 0]

FormatCall ==
    /\ fmt.pc = "format"
    /\ fmt' = [fmt EXCEPT !.pc = "formatted",
                          !.out = SplitToJSONFormat(fmt.keys, fmt.token, fmt.base)]
    /\ UNCHANGED <<cfgVars, runVars, rd>>

----------------------------------------------------------------------------
(* The Base64Decode formatter's Configure (format/base64decode.go 48-62).    *)

\* the alphabet of RFC 4648, and three more characters to build dictionaries from
StdAlphabet ==
    <<"A", "B", "C", "D", "E", "F", "G", "H", "I", "J", "K", "L", "M", "N", "O", "P",
      "Q", "R", "S", "T", "U", "V", "W", "X", "Y", "Z", "a", "b", "c", "d", "e", "f",
      "g", "h", "i", "j", "k", "l", "m", "n", "o", "p", "q", "r", "s", "t", "u", "v",
      "w", "x", "y", "z", "0", "1", "2", "3", "4", "5", "6", "7", "8", "9", "+", "/">>
MoreChars == <<"-", "_", ".">>

\* base64.StdEncoding
StdEncoding == [panics |-> FALSE, alphabet |-> StdAlphabet]

\* base64.NewEncoding: the alphabet must be 64 bytes long, the call panics otherwise
NewEncoding(dict) ==
    IF Len(dict) # 64 THEN [panics |-> TRUE, alphabet |-> <<>>]
    ELSE [panics |-> FALSE, alphabet |-> dict]

ErrDictionary == "Base64 dictionary must contain 64 characters."

\* Base64Decode.Configure: a panic leaves the function without a return value
Base64Configure(c) ==
    LET e0 == Push(<<>>, BaseConfigure(c))                              \* 49-50
        dict == GetString(c, "Dictionary", <<>>)                        \* 52
        e1 == IF Len(dict) # 64 THEN Pushf(e0, ErrDictionary) ELSE e0   \* 56-58
        enc == NewEncoding(dict)                                        \* 59
    IN  IF dict = <<>>                                                  \* 53-54
        THEN [outcome |-> "returned", dictionary |-> StdAlphabet, err |-> ErrorOrNil(e0)]
        ELSE IF enc.panics
             THEN [outcome |-> "panicked", dictionary |-> <<>>, err |-> NoError]
             ELSE [outcome |-> "returned", dictionary |-> enc.alphabet,
                   err |-> ErrorOrNil(e1)]                              \* 61

\* The dictionaries Configure is run on: of every length up to MaxDict.
MaxDict == 65
Dictionaries == {SubSeq(StdAlphabet \o MoreChars, 1, n) : n \in 1..MaxDict}
Base64Configs == [Dictionary : Optional(Dictionaries), baseFails : BOOLEAN]
NotConfigured == [outcome |-> "none", dictionary |-> <<>>, err |-> NoError]

Base64ConfigureCall ==
    /\ fmt.pc = "configure"
    /\ fmt' = [fmt EXCEPT !.pc = "configured", !.out = Base64Configure(fmt.conf)]
    /\ UNCHANGED <<cfgVars, runVars, rd>>

----------------------------------------------------------------------------
(* The specifications. *)

NoConn == [h |-> "none", sock |-> "none", read |-> 0, buf |-> 0, delivered |-> 0]
NoReader == [state |-> "none"]
NoFormatter == [pc |-> "none"]

RunInit ==
    /\ active = TRUE
    /\ shutdownReq = FALSE
    /\ burned = FALSE
    /\ fuseWaiters = {}
    /\ listen = "none"
    /\ closeCount = 0
    /\ consumePc = "start"
    /\ acceptorPc = "idle"
    /\ workers = 0
    /\ pending = 0
    /\ accepted = 0
    /\ conn = [c \in Conns |-> NoConn]
    /\ log = {}

\* No reader and no formatter is under test.
UnitIdle ==
    /\ rd = NoReader
    /\ fmt = NoFormatter

\* The running consumer: configured with the default options, then Consume is called.
Init ==
    /\ cfgPc = "configured"
    /\ conf = DefaultConfig
    /\ cons = Configure(DefaultConfig).cons
    /\ cfgResult = Configure(DefaultConfig).err
    /\ RunInit
    /\ UnitIdle

Next ==
    \/ Burn
    \/ Clear
    \/ RequestShutdown
    \/ PeerConnect
    \/ ListenerFault
    \/ ConsumeListen
    \/ ConsumeListenFails
    \/ ConsumeGo
    \/ ControlLoop
    \/ ConsumeClose
    \/ AcceptorAddWorker
    \/ AcceptorLoop
    \/ AcceptorWaitOnFuse
    \/ AcceptorWaitReturns
    \/ AcceptorAccept
    \/ AcceptorAcceptFails
    \/ AcceptorBreak
    \/ AcceptorSpawn
    \/ AcceptorWorkerDone
    \/ \E c \in Conns : HandlerClose(c)
    \/ \E c \in Conns : HandlerRead(c)
    \/ \E c \in Conns : HandlerReadEOF(c)

Spec == Init /\ [][Next]_vars

\* The scheduler runs every task that can take a step, and a handler comes back to
\* its cooperative check; the peers, the fuse's authority and the owner sending the
\* stop command are under no obligation.
Fairness ==
    /\ WF_vars(ConsumeNext)
    /\ WF_vars(AcceptorNext)
    /\ \A c \in Conns : WF_vars(HandlerClose(c))

FairSpec == Init /\ [][Next]_vars /\ Fairness

\* Configure alone, over every configuration of Configs.
ConfigureInit ==
    /\ cfgPc = "init"
    /\ conf \in Configs
    /\ cons = [protocol |-> <<>>, address |-> <<>>, flags |-> {}, delimiter |-> <<>>,
               offset |-> 0]
    /\ cfgResult = NoError
    /\ RunInit
    /\ UnitIdle

ConfigureNext == ConfigureCall

ConfigureSpec == ConfigureInit /\ [][ConfigureNext]_vars

\* The running consumer with the binary partitioner.
BinaryConfig == [DefaultConfig EXCEPT !.Partitioner = {Str_binary}]

BinaryInit ==
    /\ cfgPc = "configured"
    /\ conf = BinaryConfig
    /\ cons = Configure(BinaryConfig).cons
    /\ cfgResult = Configure(BinaryConfig).err
    /\ RunInit
    /\ UnitIdle

BinaryNext ==
    \/ Next
    \/ \E c \in Conns : HandlerMalformed(c)

BinarySpec == BinaryInit /\ [][BinaryNext]_vars

\* SplitToJSON.Format alone: the keys, and what the nested formatter returned.
SplitInit ==
    /\ cfgPc = "configured"
    /\ conf = DefaultConfig
    /\ cons = Configure(DefaultConfig).cons
    /\ cfgResult = Configure(DefaultConfig).err
    /\ RunInit
    /\ rd = NoReader
    /\ \E keys \in SeqsUpTo(KeyNames, MaxKeys), data \in SeqsUpTo({"v", "|", "\""}, MaxData),
          id \in StreamIDs :
          fmt = [pc |-> "format", keys |-> keys, token |-> DefaultToken,
                 base |-> [data |-> data, streamID |-> id], out |-> NoOutput]

SplitNext == FormatCall

SplitSpec == SplitInit /\ [][SplitNext]_vars

\* Base64Decode.Configure alone, over every configuration of Base64Configs.
Base64Init ==
    /\ cfgPc = "configured"
    /\ conf = DefaultConfig
    /\ cons = Configure(DefaultConfig).cons
    /\ cfgResult = Configure(DefaultConfig).err
    /\ RunInit
    /\ rd = NoReader
    /\ \E c \in Base64Configs : fmt = [pc |-> "configure", conf |-> c, out |-> NotConfigured]

Base64Next == Base64ConfigureCall

Base64Spec == Base64Init /\ [][Base64Next]_vars

\* The stream reader alone: a configured consumer, one connection's stream, delivered
\* in reads of any sizes.
FramingInit ==
    /\ cfgPc = "configured"
    /\ conf \in FramingConfigs
    /\ cons = Configure(conf).cons
    /\ cfgResult = Configure(conf).err
    /\ RunInit
    /\ fmt = NoFormatter
    /\ \E stream \in SeqsUpTo(Alphabet(cons.flags), MaxStream) :
          rd = [state |-> "open", stream |-> stream, pos |-> 0, reads |-> 0,
                buf |-> <<>>, out |-> <<>>, dropped |-> <<>>]

FramingNext ==
    \/ ReaderRead
    \/ ReaderEOF

FramingSpec == FramingInit /\ [][FramingNext]_vars

----------------------------------------------------------------------------
(* The properties. *)

Bound == listen # "none"

\* C1: every successful accept, and every start of a connection handler, happens
\* while the fuse is clear, whatever the interleaving of burn, clear, peers connecting
\* and the accept loop.
C1_AcceptsOnlyWhileClear ==
    [][(accepted' # accepted \/ (\E c \in Conns : conn[c].h = "none" /\ conn'[c].h # "none"))
         => ~burned]_vars

C3_ClosedListenerStopsAcceptor ==
    /\ (acceptorPc = "accept" /\ listen = "closed") ~> (acceptorPc = "failed")
    /\ (acceptorPc = "accept" /\ listen = "closed") ~> (acceptorPc = "stopped")

\* The accept task sits in Accept on the closed listener and no peer ever connected.
C3_Witness ==
    /\ acceptorPc = "accept"
    /\ listen = "closed"
    /\ pending = 0
    /\ accepted = 0

\* C4: after a shutdown (consumer inactive, listener closed) an accept task that is
\* suspended waiting for the burned fuse still reaches its end, whether or not the
\* fuse is ever cleared.
C4_ShutdownDrainsFuseWait ==
    (acceptorPc = "blocked" /\ ~active /\ listen = "closed") ~> (acceptorPc = "stopped")

\* C5: the listener is closed exactly once, by Consume's deferred Close and only
\* after the shutdown: it is not closed from the bind until ControlLoop has returned,
\* it is closed when Consume has returned, and no other step closes it.
C5_ListenerClosedOnce ==
    /\ [](closeCount <= 1)
    /\ [](consumePc \in {"go", "controlLoop", "deferred"} =>
             (listen \in {"open", "failed"} /\ closeCount = 0))
    /\ []((consumePc = "returned" /\ Bound) => (listen = "closed" /\ closeCount = 1))
    /\ [][(listen' = "closed" /\ listen # "closed") \/ closeCount' # closeCount
            => (consumePc = "deferred" /\ consumePc' = "returned" /\ ~active)]_vars

\* Consume has closed the listener and returned, and the accept task has ended after
\* serving a connection.
C5_Witness ==
    /\ consumePc = "returned"
    /\ closeCount = 1
    /\ acceptorPc = "stopped"
    /\ accepted > 0

Resumable(n) ==
    /\ consumePc = "controlLoop"
    /\ active
    /\ listen = "open"
    /\ ~burned
    /\ pending > 0
    /\ accepted = n

\* C6: with the fuse clear, the consumer active and the listener open, a waiting peer
\* is accepted and handed to a new connection handler by the same accept task,
\* unless the fuse is burned again, the consumer is shut down or the listener fails
\* first; this includes the accept task that was blocked on the fuse when it cleared.
C6_ClearResumesAccepting ==
    \A n \in 0..(MaxConn - 1) :
        Resumable(n) ~>
            (conn[n + 1].h # "none" \/ burned \/ ~active \/ listen # "open")

\* The fuse was cleared while the accept task was blocked on it, and a peer waits.
C6_Witness ==
    /\ acceptorPc = "blocked"
    /\ Acceptor \notin fuseWaiters
    /\ Resumable(accepted)

C8_BindFailureStartsNothing ==
    LogBind \in log =>
        /\ consumePc = "returned"
        /\ listen = "none"
        /\ acceptorPc = "idle"
        /\ workers = 0
        /\ accepted = 0
        /\ closeCount = 0
        /\ active
        /\ \A c \in Conns : conn[c] = NoConn

\* The bind failed, and a stop command sent afterwards stays unhandled.
C8_Witness ==
    /\ LogBind \in log
    /\ consumePc = "returned"
    /\ shutdownReq

UdpAddresses == {a \in Addresses : Len(a) >= 3 /\ ToLower(SubSeq(a, 1, 3)) = Str_udp}
BinaryNames == {Str_binary, Str_binary_le, Str_binary_be}
KnownNames == BinaryNames \cup {Str_fixed, Str_ascii, Str_delimiter}
WantsUDP(c) == c.Address \cap UdpAddresses # {}
WantsBinary(c) == \E p \in c.Partitioner : ToLower(p) \in BinaryNames
WantsFixed(c) == \E p \in c.Partitioner : ToLower(p) = Str_fixed
BadBinarySize(c) == WantsBinary(c) /\ c.Size \cap {1, 2, 4, 8} = {} /\ c.Size # {}
UnknownPartitioner(c) == \E p \in c.Partitioner : ToLower(p) \notin KnownNames
Violations(c) ==
    {m \in {ErrBase, ErrUDP, ErrSize, ErrPartitioner} :
        \/ m = ErrBase /\ c.baseFails
        \/ m = ErrUDP /\ WantsUDP(c)
        \/ m = ErrSize /\ BadBinarySize(c)
        \/ m = ErrPartitioner /\ UnknownPartitioner(c)}
Reported == {cfgResult.messages[i] : i \in 1..Len(cfgResult.messages)}

\* C9: Configure evaluates every check and the one returned error reports each
\* violation of the configuration (a failing base configuration, a UDP address, a
\* binary Size outside {1,2,4,8}, an unknown Partitioner), once each; it returns nil
\* only when there is no violation.
C9_ConfigureCollectsAll ==
    cfgPc = "configured" =>
        /\ Reported = Violations(conf)
        /\ Len(cfgResult.messages) = Cardinality(Violations(conf))
        /\ cfgResult.nil <=> Violations(conf) = {}

\* Configure has run on a UDP address together with a binary Size of 3.
C9_Witness ==
    /\ cfgPc = "configured"
    /\ WantsUDP(conf)
    /\ BadBinarySize(conf)
    /\ Reported = {ErrUDP, ErrSize}

\* C10: Configure returns an error for every Size outside {1,2,4,8} under a binary
\* partitioner and for every Size that is not positive under the fixed partitioner.
C10_SizeValidated ==
    cfgPc = "configured" =>
        /\ BadBinarySize(conf) => ~cfgResult.nil
        /\ (WantsFixed(conf) /\ \E n \in conf.Size : n <= 0) => ~cfgResult.nil

----------------------------------------------------------------------------
(* The stream reader's contracts. *)

RECURSIVE Concat(_)
Concat(ms) == IF Len(ms) = 0 THEN <<>> ELSE Head(ms) \o Concat(Tail(ms))

Received == SubSeq(rd.stream, 1, rd.pos)
Leftover == rd.buf \o rd.dropped
DelimiterKind == conf.Partitioner = {}

\* the bytes the Delimiter option of the configuration stands for
WireDelimiter ==
    CASE conf.Delimiter = {} -> <<10>>
      [] conf.Delimiter = {Str_crlf} -> <<13, 10>>
      [] OTHER -> <<124>>

\* C11: with the delimiter kind, after any sequence of reads the messages emitted so
\* far, joined in emission order, are the received stream up to and including its last
\* delimiter: every message ends with the delimiter and holds no other one, what is
\* left holds none, and no byte is lost, duplicated or reordered.
C11_DelimiterFramesInOrder ==
    (DelimiterKind /\ rd.state \in {"open", "eof"}) =>
        /\ Concat(rd.out) \o Leftover = Received
        /\ \A i \in 1..Len(rd.out) :
              Index(rd.out[i], WireDelimiter) = Len(rd.out[i]) - Len(WireDelimiter)
        /\ Index(Leftover, WireDelimiter) = -1

C11_Witness ==
    /\ DelimiterKind
    /\ rd.state = "open"
    /\ Len(rd.out) = 2
    /\ rd.out[1] # rd.out[2]
    /\ rd.buf # <<>>

\* a well-formed stream: complete frames one after the other, nothing else
RECURSIVE IsFrames(_)
IsFrames(s) ==
    \/ s = <<>>
    \/ /\ TryExtract(cons, s).res = "Found"
       /\ IsFrames(SubSeq(s, TryExtract(cons, s).end + 1, Len(s)))

\* C12: for every framing kind and every well-formed stream, whatever the reads the
\* stream arrived in, the messages emitted and the bytes kept are those of one read
\* of everything received; once the whole stream has arrived, those of one read of
\* the whole stream.
C12_FramingResumable ==
    (rd.state # "none" /\ IsFrames(rd.stream)) =>
        /\ rd.out = ExtractAll(cons, Received, <<>>).out
        /\ Leftover = ExtractAll(cons, Received, <<>>).buf
        /\ rd.pos = Len(rd.stream) => rd.out = ExtractAll(cons, rd.stream, <<>>).out

\* a length prefix of two bytes and its payload, each byte arriving in a read of
\* its own
C12_Witness ==
    /\ "MLE16" \in cons.flags
    /\ IsFrames(rd.stream)
    /\ rd.pos = Len(rd.stream)
    /\ rd.reads = Len(rd.stream)
    /\ Len(rd.out) = 1
    /\ Len(rd.out[1]) > 2 + cons.offset

FixedKind == conf.Partitioner = {Str_fixed}
\* the Size option of the configuration, 1 when it is not given
FixedSize == IF conf.Size = {} THEN 1 ELSE CHOOSE n \in conf.Size : TRUE

\* C13: with the fixed kind and size N, a stream of k*N + r bytes (0 <= r < N) read to
\* its end has produced exactly k messages, the i-th being the i-th run of N bytes of
\* the stream, and its last r bytes were discarded, never delivered.
C13_FixedFrames ==
    (FixedKind /\ FixedSize >= 1 /\ rd.state = "eof") =>
        /\ Len(rd.out) = Len(rd.stream) \div FixedSize
        /\ \A i \in 1..Len(rd.out) :
              rd.out[i] = SubSeq(rd.stream, (i - 1) * FixedSize + 1, i * FixedSize)
        /\ rd.dropped = SubSeq(rd.stream, Len(rd.out) * FixedSize + 1, Len(rd.stream))
        /\ Len(rd.dropped) = Len(rd.stream) % FixedSize

C13_Witness ==
    /\ FixedKind
    /\ FixedSize = 3
    /\ rd.state = "eof"
    /\ Len(rd.out) = 1
    /\ Len(rd.dropped) = 1

----------------------------------------------------------------------------
(* Connection-scoped failures. *)

\* the positions of the accept task inside its loop
Accepting == {"loop", "waitOnFuse", "blocked", "accept", "spawn"}

Ended(c) == conn[c].h = "loop" /\ conn'[c].h = "malformed"

\* C14: a malformed frame on one connection ends that connection only. The step that
\* ends it leaves the accept task, the listener, the active flag and every other
\* connection as they were, and while the consumer is active with its listener open
\* the accept task is still in its loop after a connection ended that way.
C14_MalformedFrameIsolated ==
    /\ []((active /\ listen = "open" /\ \E c \in Conns : conn[c].h = "malformed")
            => acceptorPc \in Accepting)
    /\ [][\A c \in Conns :
            Ended(c) => /\ acceptorPc' = acceptorPc
                        /\ listen' = listen
                        /\ active' = active
                        /\ workers' = workers
                        /\ \A d \in Conns \ {c} : conn'[d] = conn[d]]_vars

C14_Witness ==
    /\ conn[1].h = "malformed"
    /\ conn[1].sock = "closed"
    /\ conn[2].h = "loop"
    /\ conn[2].sock = "open"
    /\ conn[2].delivered > 0
    /\ acceptorPc = "accept"
    /\ active /\ listen = "open"

----------------------------------------------------------------------------
(* The formatters' contracts. *)

\* the JSON object of the first n keys and tokens: every key and every token escaped
\* and quoted, the pairs separated by commas
RECURSIVE Pairs(_, _, _)
Pairs(n, keys, tokens) ==
    IF n = 0 THEN <<>>
    ELSE (IF n = 1 THEN <<>> ELSE Pairs(n - 1, keys, tokens) \o <<",">>)
         \o Pair(EscapeJSON(keys[n]), EscapeJSON(tokens[n]))
JSONObject(n, keys, tokens) == <<"{">> \o Pairs(n, keys, tokens) \o <<"}">>

Tokens == Split(fmt.base.data, fmt.token)
PairCount == MinI(Len(fmt.keys), Len(Tokens))

\* C15: for every key list and every message, with n the smaller of the number of
\* keys and the number of tokens, Format returns the JSON object of the first n keys
\* and tokens, built the same way for every n, and the stream ID the nested formatter
\* returned.
C15_KeysAppliedByIndex ==
    fmt.pc = "formatted" =>
        /\ fmt.out.data = JSONObject(PairCount, fmt.keys, Tokens)
        /\ fmt.out.streamID = fmt.base.streamID

\* C16: Configure collects a dictionary of a wrong length like any other violation: for
\* a dictionary that is not empty and not 64 characters long it returns, with an error;
\* for an empty one it returns with the RFC 4648 alphabet and no dictionary error.
C16_DictionaryLengthReported ==
    fmt.pc = "configured" =>
        LET dict == GetString(fmt.conf, "Dictionary", <<>>)
        IN  /\ (dict # <<>> /\ Len(dict) # 64) =>
                  (fmt.out.outcome = "returned" /\ ~fmt.out.err.nil)
            /\ dict = <<>> =>
                  /\ fmt.out.outcome = "returned"
                  /\ fmt.out.dictionary = StdAlphabet
                  /\ \A i \in 1..Len(fmt.out.err.messages) :
                        fmt.out.err.messages[i] # ErrDictionary

----------------------------------------------------------------------------
(* Accept errors. *)

\* C17: an accept error is never retried: from the failed Accept the accept task only
\* leaves its loop. Leaving, it logs the error exactly when the consumer is still
\* active. The listener is closed only after the active flag was cleared, so the error
\* of an Accept on the closed listener is never logged.
C17_AcceptErrorStopsAcceptor ==
    /\ [](listen = "closed" => ~active)
    /\ [][acceptorPc = "failed" => acceptorPc' \in {"failed", "done"}]_vars
    /\ [][(acceptorPc = "failed" /\ acceptorPc' = "done") =>
            /\ LogListen \in log' <=> active
            /\ listen = "closed" => log' = log]_vars

C17_Witness ==
    /\ acceptorPc = "done"
    /\ listen = "failed"
    /\ active
    /\ LogListen \in log

----------------------------------------------------------------------------
(* What Configure stores. *)

\* the partitioner the configuration names, in lower case
PartitionerName ==
    IF conf.Partitioner = {} THEN Str_delimiter
    ELSE ToLower(CHOOSE p \in conf.Partitioner : TRUE)
SizeOption(default) == IF conf.Size = {} THEN default ELSE CHOOSE n \in conf.Size : TRUE
OffsetOption == IF conf.Offset = {} THEN 0 ELSE CHOOSE n \in conf.Offset : TRUE

\* the flags that select a framing kind, and the length flag of a width in bytes
KindFlags == cons.flags \cap ({"MLE", "MLEFixed"} \cup LengthFlags)
WidthFlag(size) ==
    CASE size = 1 -> "MLE8" [] size = 2 -> "MLE16" [] size = 4 -> "MLE32" [] OTHER -> "MLE64"

\* C18: after a Configure that returned no error the flags select exactly one framing
\* kind: no length flag for delimiter, the ASCII length flag alone for ascii, the fixed
\* flag alone for fixed, the one length flag of the configured Size for the binary
\* kinds; the big-endian flag is set for binary_be and for nothing else; and binary_le
\* gives, for every Size, Offset and Delimiter, what binary gives.
C18_OneFramingKind ==
    cfgPc = "configured" =>
        /\ cfgResult.nil =>
              /\ PartitionerName = Str_delimiter => KindFlags = {}
              /\ PartitionerName = Str_ascii => KindFlags = {"MLE"}
              /\ PartitionerName = Str_fixed => KindFlags = {"MLEFixed"}
              /\ PartitionerName \in BinaryNames =>
                    /\ Cardinality(KindFlags) = 1
                    /\ KindFlags = {WidthFlag(SizeOption(4))}
              /\ "BigEndian" \in cons.flags <=> PartitionerName = Str_binary_be
        /\ conf.Partitioner = {Str_binary_le} =>
              /\ cons = Configure([conf EXCEPT !.Partitioner = {Str_binary}]).cons
              /\ cfgResult = Configure([conf EXCEPT !.Partitioner = {Str_binary}]).err

C18_Witness ==
    /\ cfgPc = "configured"
    /\ cfgResult.nil
    /\ conf.Partitioner = {Str_binary_le}
    /\ conf.Size = {1}
    /\ conf.Offset = {2}
    /\ cons.flags = {"Everything", "MLE8"}

\* C19: the fixed kind ignores the Offset option: the offset field holds the Size
\* option (1 when not given), and the configuration with any other Offset, or none,
\* gives the same fields and the same result; for every other partitioner the offset
\* field holds the Offset option (0 when not given).
C19_FixedIgnoresOffset ==
    cfgPc = "configured" =>
        IF PartitionerName = Str_fixed
        THEN /\ cons.offset = SizeOption(1)
             /\ \A o \in Optional({0, 2}) :
                   /\ Configure([conf EXCEPT !.Offset = o]).cons = cons
                   /\ Configure([conf EXCEPT !.Offset = o]).err = cfgResult
        ELSE cons.offset = OffsetOption

C19_Witness ==
    /\ cfgPc = "configured"
    /\ conf.Partitioner = {Str_fixed}
    /\ conf.Offset = {2}
    /\ conf.Size = {3}
    /\ cons.offset = 3

----------------------------------------------------------------------------
(* The worker group. *)

\* the accept task has been started and has not ended
AcceptorRunning == acceptorPc \notin {"idle", "stopped"}

\* C20: the accept task's registration in the worker group is balanced in every
\* interleaving: the counter is never negative, the task is counted once from its start
\* to its WorkerDone, and the counter is zero only when no accept task is running, so
\* that whoever finds the group drained finds no accept task.
C20_WorkerRegistrationBalanced ==
    /\ workers >= 0
    /\ workers <= 1
    /\ workers = 0 => ~AcceptorRunning

====
